---- MODULE Spec2Model ----
(***************************************************************************)
(* The domain-request lifecycle of registrar/models/domain_request.py:     *)
(* the django-fsm transitions of DomainRequest (submit, in_review,         *)
(* action_needed, approve, withdraw, reject, reject_with_prejudice), the   *)
(* save() override, and the database rows those methods read and write.    *)
(*                                                                         *)
(* Every request exists twice: `mem` is the Python instance a caller holds *)
(* and `db` is its persisted row.  A transition method changes `mem` only  *)
(* (django-fsm assigns the target status to the instance when the method   *)
(* returns); a row changes when save() runs.  submit() and approve() call  *)
(* save() themselves; otherwise it is the caller's next call               *)
(* (tests/test_views_application.py:88-89).                                *)
(***************************************************************************)
EXTENDS Integers, Sequences, FiniteSets, TLC

(***************************************************************************)
(* Bounds of the model.                                                    *)
(***************************************************************************)
MaxDay == 2
MaxDomains == 2

NULL == "None"
\* a DateField holding None (first_submitted_date ... default=None)
NoDate == 0
\* a OneToOneField to Domain holding None (approved_domain null=True)
NoDomain == 0

(***************************************************************************)
(* DomainRequest.DomainRequestStatus                                       *)
(***************************************************************************)
IN_REVIEW == "in review"
ACTION_NEEDED == "action needed"
APPROVED == "approved"
REJECTED == "rejected"
INELIGIBLE == "ineligible"
SUBMITTED == "submitted"
WITHDRAWN == "withdrawn"
STARTED == "started"

DomainRequestStatus ==
    {IN_REVIEW, ACTION_NEEDED, APPROVED, REJECTED, INELIGIBLE, SUBMITTED, WITHDRAWN, STARTED}

\* ActionNeededReasons.OTHER, the one reason send_custom_status_update_email excludes
REASON_OTHER == "other"
ActionNeededReasons == {"eligibility_unclear", "bad_name", REASON_OTHER}
RejectionReasons == {"domain_purpose"}

(***************************************************************************)
(* Domain.State, as the tests enumerate it.                                *)
(***************************************************************************)
UNKNOWN == "unknown"
DNS_NEEDED == "dns needed"
READY == "ready"
ON_HOLD == "on hold"
DELETED == "deleted"
DomainState == {UNKNOWN, DNS_NEEDED, READY, ON_HOLD, DELETED}

(***************************************************************************)
(* The users and names the requests are built from.                        *)
(***************************************************************************)
\* creators: alice has an email address, carol has none (recipient.email is None)
Creators == {"alice", "carol"}
UserEmail(u) == IF u = "alice" THEN "alice@igorville.gov" ELSE NULL
\* investigators: an analyst who is staff, and a user who is not
Investigators == {NULL, "analyst", "visitor"}
UserIsStaff(u) == u = "analyst"
\* requested_domain: no DraftDomain, one whose name could be a domain, one whose name could not
ValidName == "city.gov"
InvalidName == "city gov!"
RequestedDomains == {NULL, ValidName, InvalidName}
\* federal_agency: unset, or an agency the requester chose
NonFederalAgency == "Non-Federal Agency"
FederalAgencies == {NULL, "GSA"}

VARIABLES
    mem,        \* request id -> the DomainRequest instance held by the caller
    db,         \* request id -> the persisted DomainRequest row
    domains,    \* the Domain table: a set of [id, name, state]
    infos,      \* the DomainInformation table: a set of [domain, domain_request]
    roles,      \* the UserDomainRole table: a set of [user, domain, role]
    restricted, \* the users whose status is RESTRICTED
    today,      \* timezone.now().date()
    nextId,     \* the next primary key of the Domain table
    last,       \* the call just made: [op, req, result]
    pc,         \* request id -> where a caller running approve step by step stands
    outbox,     \* the calls of send_templated_email made by the call just made
    inst,       \* the record whose organization type is being edited: an instance
    org_rows    \* model class -> primary key -> the persisted organization fields

vars ==
    <<mem, db, domains, infos, roles, restricted, today, nextId, last, pc, outbox, inst, org_rows>>

(***************************************************************************)
(* The rows and the instance.  An instance is its row plus the cache       *)
(* _cache_status_and_status_reasons keeps.                                 *)
(***************************************************************************)
\* the model fields of DomainRequest a save writes
Row(m) ==
    [ status |-> m.status,
      creator |-> m.creator,
      investigator |-> m.investigator,
      requested_domain |-> m.requested_domain,
      federal_agency |-> m.federal_agency,
      approved_domain |-> m.approved_domain,
      rejection_reason |-> m.rejection_reason,
      rejection_reason_email |-> m.rejection_reason_email,
      action_needed_reason |-> m.action_needed_reason,
      action_needed_reason_email |-> m.action_needed_reason_email,
      first_submitted_date |-> m.first_submitted_date,
      last_submitted_date |-> m.last_submitted_date,
      last_status_update |-> m.last_status_update ]

\* _cache_status_and_status_reasons
cache_status_and_status_reasons(m) ==
    [ m EXCEPT !.cached_action_needed_reason = m.action_needed_reason,
               !.cached_rejection_reason = m.rejection_reason,
               !.cached_status = m.status ]

\* DomainRequest.__init__ on a row: the fields, then the cache of them
Instance(row) ==
    cache_status_and_status_reasons(
        [ status |-> row.status,
          creator |-> row.creator,
          investigator |-> row.investigator,
          requested_domain |-> row.requested_domain,
          federal_agency |-> row.federal_agency,
          approved_domain |-> row.approved_domain,
          rejection_reason |-> row.rejection_reason,
          rejection_reason_email |-> row.rejection_reason_email,
          action_needed_reason |-> row.action_needed_reason,
          action_needed_reason_email |-> row.action_needed_reason_email,
          first_submitted_date |-> row.first_submitted_date,
          last_submitted_date |-> row.last_submitted_date,
          last_status_update |-> row.last_status_update,
          cached_action_needed_reason |-> NULL,
          cached_rejection_reason |-> NULL,
          cached_status |-> NULL ])

\* a request as the wizard creates it: status defaults to STARTED, the dates to None
NewRow(creator, investigator, requested, agency) ==
    [ status |-> STARTED,
      creator |-> creator,
      investigator |-> investigator,
      requested_domain |-> requested,
      federal_agency |-> agency,
      approved_domain |-> NoDomain,
      rejection_reason |-> NULL,
      rejection_reason_email |-> NULL,
      action_needed_reason |-> NULL,
      action_needed_reason_email |-> NULL,
      first_submitted_date |-> NoDate,
      last_submitted_date |-> NoDate,
      last_status_update |-> NoDate ]

(***************************************************************************)
(* The collaborators whose code is outside the sources.                    *)
(***************************************************************************)
\* Domain.is_active
is_active(dom) == dom.state = READY
\* DraftDomain.string_could_be_domain
string_could_be_domain(name) == name = ValidName
\* FederalAgency.objects.filter(agency="Non-Federal Agency").first()
NonFederalAgencyRecord == NonFederalAgency

\* the Domain rows with primary key id (at most one)
DomainById(id) == {dom \in domains : dom.id = id}
\* Domain.objects.filter(name=...).exists()
DomainNameExists(name) == \E dom \in domains : dom.name = name

(***************************************************************************)
(* _send_status_update_email (domain_request.py:776-842) with              *)
(* send_templated_email (utility/email.py:23-30).  The call at             *)
(* domain_request.py:832-839 passes wrap_email=..., a keyword the          *)
(* signature of send_templated_email does not have: Python raises          *)
(* TypeError before the body runs, and the handler around the call catches *)
(* EmailSendingError only.  So a send that gets as far as the call raises; *)
(* it returns normally only when the creator has no email address or       *)
(* send_email is False.                                                    *)
(***************************************************************************)
send_status_update_email(m, send_email) ==
    IF UserEmail(m.creator) = NULL THEN "none"
    ELSE IF ~send_email THEN "none"
    ELSE "TypeError"

(***************************************************************************)
(* The calls of send_templated_email that _send_status_update_email makes  *)
(* for instance m: none when it returns early, otherwise the one call      *)
(* (lines 832-839), with the name the caller gave the email (new_status),  *)
(* the address it goes to, the custom_email_content, and how the call      *)
(* ends.                                                                   *)
(***************************************************************************)
send_templated_email_calls(m, send_email, new_status, custom_email_content) ==
    IF send_status_update_email(m, send_email) = "none" THEN <<>>
    ELSE << [ new_status |-> new_status,
              to |-> UserEmail(m.creator),
              custom_email_content |-> custom_email_content,
              outcome |-> send_status_update_email(m, send_email) ] >>

(***************************************************************************)
(* send_custom_status_update_email: whether the three early returns are    *)
(* passed and the email is handed to _send_status_update_email.            *)
(***************************************************************************)
custom_email_content(m) ==
    IF m.status = ACTION_NEEDED THEN m.action_needed_reason_email ELSE m.rejection_reason_email

custom_status_update_email_due(m) ==
    LET reason == IF m.status = ACTION_NEEDED THEN m.action_needed_reason ELSE m.rejection_reason
        email == custom_email_content(m)
        cached == IF m.status = ACTION_NEEDED THEN m.cached_action_needed_reason
                  ELSE m.cached_rejection_reason
        excluded == IF m.status = ACTION_NEEDED THEN {REASON_OTHER} ELSE {}
    IN  /\ email # NULL
        /\ reason # NULL
        /\ reason \notin excluded
        /\ (cached # reason \/ cached = NULL)

(***************************************************************************)
(* DomainRequest.save.  The result is the instance after the call, the row *)
(* written, and the exception that leaves save(), if any.  The row is      *)
(* written before the custom email is tried, and the cache is refreshed    *)
(* only when save() runs to its end.                                       *)
(***************************************************************************)
save(m, day) ==
    LET m1 == IF m.cached_status # m.status THEN [m EXCEPT !.last_status_update = day] ELSE m
        due == m1.status \in {ACTION_NEEDED, REJECTED} /\ custom_status_update_email_due(m1)
        err == IF due THEN send_status_update_email(m1, TRUE) ELSE "none"
    IN  [ mem |-> IF err = "none" THEN cache_status_and_status_reasons(m1) ELSE m1,
          row |-> Row(m1),
          err |-> err,
          sent |-> IF due
                   THEN send_templated_email_calls(m1, TRUE, m1.status, custom_email_content(m1))
                   ELSE <<>> ]

\* the condition with the look at the approved domain left out
domain_is_not_active_Always(m) == TRUE

\* domain_is_not_active
domain_is_not_active(m) ==
    IF m.approved_domain # NoDomain
    THEN \A dom \in DomainById(m.approved_domain) : ~is_active(dom)
    ELSE TRUE

\* investigator_exists_and_is_staff
investigator_exists_and_is_staff(m) ==
    ~(m.investigator = NULL \/ ~UserIsStaff(m.investigator))

(***************************************************************************)
(* The initial state: one request, as created, with the attributes the     *)
(* transitions read, in an otherwise empty or already populated Domain     *)
(* table.                                                                  *)
(***************************************************************************)
ExistingDomain == [id |-> 1, name |-> ValidName, state |-> READY]

Init ==
    /\ \E c \in Creators, i \in Investigators, n \in RequestedDomains, a \in FederalAgencies :
          /\ db = [r \in {"r1"} |-> NewRow(c, i, n, a)]
          /\ mem = [r \in {"r1"} |-> Instance(NewRow(c, i, n, a))]
    /\ \/ domains = {} /\ nextId = 1
       \/ domains = {ExistingDomain} /\ nextId = 2
    /\ infos = {}
    /\ roles = {}
    /\ restricted = {}
    /\ today = 1
    /\ last = [op |-> "init", req |-> NULL, result |-> "ok"]
    /\ pc = [r \in {"r1"} |-> "idle"]
    /\ outbox = <<>>
    /\ inst = NULL
    /\ org_rows = <<>>

\* the call just made, how it ended, and the calls of send_templated_email it made
CalledSending(op, r, result, sent) ==
    /\ last' = [op |-> op, req |-> r, result |-> result]
    /\ outbox' = sent

Called(op, r, result) == CalledSending(op, r, result, <<>>)

(***************************************************************************)
(* submit.  The source check is django-fsm's; the two ValueErrors and the  *)
(* save() come before the status changes, so the confirmation email is     *)
(* decided on the source status.                                           *)
(***************************************************************************)
\* a source list that lets an approved request be submitted again
SubmitSources_WithApproved == {STARTED, IN_REVIEW, ACTION_NEEDED, WITHDRAWN, APPROVED}

SubmitSources == {STARTED, IN_REVIEW, ACTION_NEEDED, WITHDRAWN}

\* the dates with the test `if not self.first_submitted_date` left out
submit_dates_Overwrite(m, day) ==
    [m EXCEPT !.first_submitted_date = day, !.last_submitted_date = day]

\* the two dates submit sets (lines 878-883)
submit_dates(m, day) ==
    [m EXCEPT !.first_submitted_date = IF m.first_submitted_date = NoDate THEN day ELSE @,
              !.last_submitted_date = day]

submit(r) ==
    LET m == mem[r]
        m1 == submit_dates(m, today)
        s == save(m1, today)
        mail == IF m.status \in {STARTED, WITHDRAWN}
                THEN send_status_update_email(s.mem, TRUE) ELSE "none"
        sent == IF m.status \in {STARTED, WITHDRAWN}
                THEN send_templated_email_calls(s.mem, TRUE, "submission confirmation", NULL)
                ELSE <<>>
    IN  /\ UNCHANGED <<domains, infos, roles, restricted, today, nextId>>
        /\ IF m.status \notin SubmitSources
           THEN /\ Called("submit", r, "TransitionNotAllowed")
                /\ UNCHANGED <<mem, db>>
           ELSE IF m.requested_domain = NULL \/ ~string_could_be_domain(m.requested_domain)
           THEN /\ Called("submit", r, "ValueError")
                /\ UNCHANGED <<mem, db>>
           ELSE IF s.err # "none"
           THEN /\ CalledSending("submit", r, s.err, s.sent)
                /\ mem' = [mem EXCEPT ![r] = s.mem]
                /\ db' = [db EXCEPT ![r] = s.row]
           ELSE IF mail # "none"
           THEN /\ CalledSending("submit", r, mail, s.sent \o sent)
                /\ mem' = [mem EXCEPT ![r] = s.mem]
                /\ db' = [db EXCEPT ![r] = s.row]
           ELSE /\ CalledSending("submit", r, "ok", s.sent \o sent)
                /\ mem' = [mem EXCEPT ![r] = [s.mem EXCEPT !.status = SUBMITTED]]
                /\ db' = [db EXCEPT ![r] = s.row]

(***************************************************************************)
(* delete_and_clean_up_domain.  `fail` is the statement of the try block   *)
(* that raises, if any: the read of approved_domain.state, deletedInEpp(), *)
(* or the local delete().  The except clause logs and returns, so          *)
(* whatever ran before the exception stays done and                        *)
(* self.approved_domain = None is skipped.  The result is the instance and *)
(* the tables after the call.  Deleting the Domain row cascades to its     *)
(* DomainInformation and UserDomainRole rows and, by on_delete=SET_NULL,   *)
(* nulls approved_domain in the DomainRequest rows that point at it.       *)
(***************************************************************************)
CleanupFailures == {"none", "state", "deletedInEpp", "delete"}

\* delete_and_clean_up_domain without the test of line 767
delete_and_clean_up_domain_AnyState(m, fail) ==
    LET id == m.approved_domain
        found == DomainById(id)
        unchanged == [mem |-> m, domains |-> domains, infos |-> infos, roles |-> roles, db |-> db]
    IN  IF id = NoDomain \/ found = {} \/ fail = "state"
        THEN unchanged \* None has no attribute state, or the read raised
        ELSE LET dom == CHOOSE x \in found : TRUE
                 inEpp == TRUE
                 marked == IF inEpp
                           THEN (domains \ {dom}) \cup {[dom EXCEPT !.state = DELETED]}
                           ELSE domains
             IN  IF fail = "deletedInEpp" /\ inEpp
                 THEN unchanged
                 ELSE IF fail = "delete"
                 THEN [unchanged EXCEPT !.domains = marked]
                 ELSE [ mem |-> [m EXCEPT !.approved_domain = NoDomain],
                        domains |-> domains \ {dom},
                        infos |-> {x \in infos : x.domain # id},
                        roles |-> {x \in roles : x.domain # id},
                        db |-> [q \in DOMAIN db |->
                                   IF db[q].approved_domain = id
                                   THEN [db[q] EXCEPT !.approved_domain = NoDomain]
                                   ELSE db[q]] ]

delete_and_clean_up_domain(m, fail) ==
    LET id == m.approved_domain
        found == DomainById(id)
        unchanged == [mem |-> m, domains |-> domains, infos |-> infos, roles |-> roles, db |-> db]
    IN  IF id = NoDomain \/ found = {} \/ fail = "state"
        THEN unchanged \* None has no attribute state, or the read raised
        ELSE LET dom == CHOOSE x \in found : TRUE
                 inEpp == dom.state # UNKNOWN
                 marked == IF inEpp
                           THEN (domains \ {dom}) \cup {[dom EXCEPT !.state = DELETED]}
                           ELSE domains
             IN  IF fail = "deletedInEpp" /\ inEpp
                 THEN unchanged
                 ELSE IF fail = "delete"
                 THEN [unchanged EXCEPT !.domains = marked]
                 ELSE [ mem |-> [m EXCEPT !.approved_domain = NoDomain],
                        domains |-> domains \ {dom},
                        infos |-> {x \in infos : x.domain # id},
                        roles |-> {x \in roles : x.domain # id},
                        db |-> [q \in DOMAIN db |->
                                   IF db[q].approved_domain = id
                                   THEN [db[q] EXCEPT !.approved_domain = NoDomain]
                                   ELSE db[q]] ]

\* the same with the status left alone when the cleanup did not run to its end
AfterCleanup_Unfinished(r, c, target) ==
    /\ mem' = [mem EXCEPT ![r] =
                  IF c.mem.approved_domain = NoDomain
                  THEN [c.mem EXCEPT !.status = target]
                  ELSE c.mem]
    /\ db' = c.db
    /\ domains' = c.domains
    /\ infos' = c.infos
    /\ roles' = c.roles

\* what a transition that ran delete_and_clean_up_domain leaves: instance m with status target
AfterCleanup(r, c, target) ==
    /\ mem' = [mem EXCEPT ![r] = [c.mem EXCEPT !.status = target]]
    /\ db' = c.db
    /\ domains' = c.domains
    /\ infos' = c.infos
    /\ roles' = c.roles

(***************************************************************************)
(* in_review                                                               *)
(***************************************************************************)
InReviewSources == {SUBMITTED, ACTION_NEEDED, APPROVED, REJECTED, INELIGIBLE}

in_review(r, fail) ==
    LET m == mem[r]
        m1 == IF m.status = REJECTED THEN [m EXCEPT !.rejection_reason = NULL]
              ELSE IF m.status = ACTION_NEEDED THEN [m EXCEPT !.action_needed_reason = NULL]
              ELSE m
    IN  /\ UNCHANGED <<restricted, today, nextId>>
        /\ IF \/ m.status \notin InReviewSources
              \/ ~(domain_is_not_active(m) /\ investigator_exists_and_is_staff(m))
           THEN /\ Called("in_review", r, "TransitionNotAllowed")
                /\ UNCHANGED <<mem, db, domains, infos, roles>>
           ELSE /\ Called("in_review", r, "ok")
                /\ IF m.status = APPROVED
                   THEN AfterCleanup(r, delete_and_clean_up_domain(m, fail), IN_REVIEW)
                   ELSE /\ mem' = [mem EXCEPT ![r] = [m1 EXCEPT !.status = IN_REVIEW]]
                        /\ UNCHANGED <<db, domains, infos, roles>>

(***************************************************************************)
(* action_needed                                                           *)
(***************************************************************************)
ActionNeededSources == {IN_REVIEW, APPROVED, REJECTED, INELIGIBLE}

action_needed(r, fail) ==
    LET m == mem[r]
        m1 == IF m.status = REJECTED THEN [m EXCEPT !.rejection_reason = NULL] ELSE m
    IN  /\ UNCHANGED <<restricted, today, nextId>>
        /\ IF \/ m.status \notin ActionNeededSources
              \/ ~(domain_is_not_active(m) /\ investigator_exists_and_is_staff(m))
           THEN /\ Called("action_needed", r, "TransitionNotAllowed")
                /\ UNCHANGED <<mem, db, domains, infos, roles>>
           ELSE /\ Called("action_needed", r, "ok")
                /\ IF m.status = APPROVED
                   THEN AfterCleanup(r, delete_and_clean_up_domain(m, fail), ACTION_NEEDED)
                   ELSE /\ mem' = [mem EXCEPT ![r] = [m1 EXCEPT !.status = ACTION_NEEDED]]
                        /\ UNCHANGED <<db, domains, infos, roles>>

(***************************************************************************)
(* approve.  `fail` is the collaborator call that raises, if any:          *)
(* DomainInformation.create_from_da or UserDomainRole.get_or_create.       *)
(* The method has no transaction around it, so every row written before an *)
(* exception stays written.  In order: the federal_agency default and its  *)
(* save(), the name check, Domain.objects.create, create_from_da,          *)
(* get_or_create, the reasons cleared, the approved email; django-fsm sets *)
(* the status only when the method returns.                                *)
(***************************************************************************)
\* a source list that lets a withdrawn request be approved
ApproveSources_WithWithdrawn == {SUBMITTED, IN_REVIEW, ACTION_NEEDED, REJECTED, WITHDRAWN}

ApproveSources == {SUBMITTED, IN_REVIEW, ACTION_NEEDED, REJECTED}
ApproveFailures == {"none", "create_from_da", "get_or_create"}
MANAGER == "manager"

\* approve without its first statement: the agency is left as it is
approve_default_agency_Skipped(m, day) ==
    [mem |-> m, row |-> Row(m), err |-> "none", sent |-> <<>>]

\* the first statement: default the agency and save, when it is unset
approve_default_agency(m, day) ==
    IF m.federal_agency = NULL
    THEN save([m EXCEPT !.federal_agency = NonFederalAgencyRecord], day)
    ELSE [mem |-> m, row |-> Row(m), err |-> "none", sent |-> <<>>]

\* Domain.objects.create(name=...): a new row, in the state a new Domain starts in
NewDomain(id, name) == [id |-> id, name |-> name, state |-> UNKNOWN]

\* DomainInformation.create_from_da(domain_request=self, domain=created_domain)
NewDomainInformation(r, id, m) ==
    [domain |-> id, domain_request |-> r, creator |-> m.creator, federal_agency |-> m.federal_agency]

\* UserDomainRole.objects.get_or_create(user=self.creator, domain=created_domain, role=MANAGER)
NewUserDomainRole(id, m) == [user |-> m.creator, domain |-> id, role |-> MANAGER]

\* the reasons approve clears, by the status it leaves
approve_clear_reasons(m) ==
    IF m.status = REJECTED THEN [m EXCEPT !.rejection_reason = NULL]
    ELSE IF m.status = ACTION_NEEDED THEN [m EXCEPT !.action_needed_reason = NULL]
    ELSE m

\* Domain.objects.filter(name=self.requested_domain.name).exists(), and the error it raises
approve_name_in_use(m) == DomainNameExists(m.requested_domain)

(***************************************************************************)
(* approve from Domain.objects.create on (lines 1005-1029), for the        *)
(* instance m the first statements left and the DomainRequest rows `rows`  *)
(* they wrote.                                                             *)
(***************************************************************************)
approve_create(r, m, rows, send_email, fail) ==
    LET m2 == [m EXCEPT !.approved_domain = nextId]
        m3 == approve_clear_reasons(m2)
        mail == send_status_update_email(m3, send_email)
        sent == send_templated_email_calls(m3, send_email, "domain request approved", NULL)
    IN  /\ nextId <= MaxDomains
        /\ nextId' = nextId + 1
        /\ db' = rows
        /\ domains' = domains \cup {NewDomain(nextId, m.requested_domain)}
        /\ IF fail = "create_from_da"
           THEN /\ Called("approve", r, "Exception")
                /\ mem' = [mem EXCEPT ![r] = m2]
                /\ UNCHANGED <<infos, roles>>
           ELSE IF fail = "get_or_create"
           THEN /\ Called("approve", r, "Exception")
                /\ mem' = [mem EXCEPT ![r] = m2]
                /\ infos' = infos \cup {NewDomainInformation(r, nextId, m2)}
                /\ UNCHANGED roles
           ELSE /\ infos' = infos \cup {NewDomainInformation(r, nextId, m2)}
                /\ roles' = roles \cup {NewUserDomainRole(nextId, m2)}
                /\ IF mail # "none"
                   THEN /\ CalledSending("approve", r, mail, sent)
                        /\ mem' = [mem EXCEPT ![r] = m3]
                   ELSE /\ CalledSending("approve", r, "ok", sent)
                        /\ mem' = [mem EXCEPT ![r] = [m3 EXCEPT !.status = APPROVED]]

\* approve up to the name check (lines 972-1002) when it does not get past it
approve_refused(r, m, s, rows) ==
    /\ UNCHANGED <<domains, infos, roles, nextId>>
    /\ IF m.status \notin ApproveSources \/ ~investigator_exists_and_is_staff(m)
       THEN /\ Called("approve", r, "TransitionNotAllowed")
            /\ UNCHANGED <<mem, db>>
       ELSE /\ mem' = [mem EXCEPT ![r] = s.mem]
            /\ db' = rows
            /\ CalledSending("approve", r,
                             IF s.err # "none" THEN s.err
                             ELSE IF m.requested_domain = NULL THEN "AttributeError"
                             ELSE "FSMDomainRequestError",
                             s.sent)

\* whether approve gets past its conditions, its first save() and the name check
approve_passes(m, s) ==
    /\ m.status \in ApproveSources
    /\ investigator_exists_and_is_staff(m)
    /\ s.err = "none"
    /\ m.requested_domain # NULL
    /\ ~approve_name_in_use(m)

approve(r, send_email, fail) ==
    LET m == mem[r]
        s == approve_default_agency(m, today)
        rows == IF m.federal_agency = NULL THEN [db EXCEPT ![r] = s.row] ELSE db
    IN  /\ UNCHANGED <<restricted, today>>
        /\ IF approve_passes(m, s)
           THEN approve_create(r, s.mem, rows, send_email, fail)
           ELSE approve_refused(r, m, s, rows)

(***************************************************************************)
(* withdraw                                                                *)
(***************************************************************************)
WithdrawSources == {SUBMITTED, IN_REVIEW, ACTION_NEEDED}

withdraw(r) ==
    LET m == mem[r]
        mail == send_status_update_email(m, TRUE)
        sent == send_templated_email_calls(m, TRUE, "withdraw", NULL)
    IN  /\ UNCHANGED <<db, domains, infos, roles, restricted, today, nextId>>
        /\ IF m.status \notin WithdrawSources
           THEN /\ Called("withdraw", r, "TransitionNotAllowed")
                /\ UNCHANGED mem
           ELSE IF mail # "none"
           THEN /\ CalledSending("withdraw", r, mail, sent)
                /\ UNCHANGED mem
           ELSE /\ CalledSending("withdraw", r, "ok", sent)
                /\ mem' = [mem EXCEPT ![r] = [m EXCEPT !.status = WITHDRAWN]]

(***************************************************************************)
(* reject                                                                  *)
(***************************************************************************)
RejectSources == {IN_REVIEW, ACTION_NEEDED, APPROVED}

reject(r, fail) ==
    LET m == mem[r]
    IN  /\ UNCHANGED <<restricted, today, nextId>>
        /\ IF \/ m.status \notin RejectSources
              \/ ~(domain_is_not_active(m) /\ investigator_exists_and_is_staff(m))
           THEN /\ Called("reject", r, "TransitionNotAllowed")
                /\ UNCHANGED <<mem, db, domains, infos, roles>>
           ELSE /\ Called("reject", r, "ok")
                /\ IF m.status = APPROVED
                   THEN AfterCleanup(r, delete_and_clean_up_domain(m, fail), REJECTED)
                   ELSE /\ mem' = [mem EXCEPT ![r] = [m EXCEPT !.status = REJECTED]]
                        /\ UNCHANGED <<db, domains, infos, roles>>

(***************************************************************************)
(* reject_with_prejudice.  creator.restrict_user() saves the user.         *)
(***************************************************************************)
RejectWithPrejudiceSources == {IN_REVIEW, ACTION_NEEDED, APPROVED, REJECTED}

\* reject_with_prejudice without its last statement
restrict_user_Skipped(u) == restricted

\* self.creator.restrict_user(): the users restricted once u is
restrict_user(u) == restricted \cup {u}

reject_with_prejudice(r, fail) ==
    LET m == mem[r]
    IN  /\ UNCHANGED <<today, nextId>>
        /\ IF \/ m.status \notin RejectWithPrejudiceSources
              \/ ~(domain_is_not_active(m) /\ investigator_exists_and_is_staff(m))
           THEN /\ Called("reject_with_prejudice", r, "TransitionNotAllowed")
                /\ UNCHANGED <<mem, db, domains, infos, roles, restricted>>
           ELSE /\ Called("reject_with_prejudice", r, "ok")
                /\ restricted' = restrict_user(m.creator)
                /\ IF m.status = APPROVED
                   THEN AfterCleanup(r, delete_and_clean_up_domain(m, fail), INELIGIBLE)
                   ELSE /\ mem' = [mem EXCEPT ![r] = [m EXCEPT !.status = INELIGIBLE]]
                        /\ UNCHANGED <<db, domains, infos, roles>>

(***************************************************************************)
(* The registry side of a Domain: once it has a manager, its state moves   *)
(* as name servers are added and holds are placed and lifted.  Not part of *)
(* the request engine, but domain_is_not_active and the cleanup read it.   *)
(***************************************************************************)
RegistryStates == {READY, ON_HOLD}

domain_state_changes(dom, state) ==
    /\ dom \in domains
    /\ \E x \in roles : x.domain = dom.id
    /\ dom.state \notin {DELETED, state}
    /\ domains' = (domains \ {dom}) \cup {[dom EXCEPT !.state = state]}
    /\ Called("domain_state_changes", NULL, "ok")
    /\ UNCHANGED <<mem, db, infos, roles, restricted, today, nextId>>

(***************************************************************************)
(* The caller's save() of the instance it holds, and a caller's load of    *)
(* the row into a fresh instance.                                          *)
(***************************************************************************)
Save(r) ==
    LET s == save(mem[r], today)
    IN  /\ mem' = [mem EXCEPT ![r] = s.mem]
        /\ db' = [db EXCEPT ![r] = s.row]
        /\ CalledSending("save", r, IF s.err = "none" THEN "ok" ELSE s.err, s.sent)
        /\ UNCHANGED <<domains, infos, roles, restricted, today, nextId>>

Load(r) ==
    /\ mem' = [mem EXCEPT ![r] = Instance(db[r])]
    /\ Called("load", r, "ok")
    /\ UNCHANGED <<db, domains, infos, roles, restricted, today, nextId>>

\* the calendar: timezone.now().date() moves on
Tick ==
    /\ today < MaxDay
    /\ today' = today + 1
    /\ Called("tick", NULL, "ok")
    /\ UNCHANGED <<mem, db, domains, infos, roles, restricted, nextId>>

\* the failure points that can matter to a call: the cleanup runs only out of APPROVED
CleanupChoices(r) == IF mem[r].status = APPROVED THEN CleanupFailures ELSE {"none"}

\* send_email and the failing collaborator matter only to an approve that creates the Domain
ApproveChoices(r) ==
    IF approve_passes(mem[r], approve_default_agency(mem[r], today))
    THEN [send_email : BOOLEAN, fail : ApproveFailures]
    ELSE {[send_email |-> TRUE, fail |-> "none"]}

Call ==
    \/ \E r \in DOMAIN mem : submit(r)
    \/ \E r \in DOMAIN mem : \E fail \in CleanupChoices(r) : in_review(r, fail)
    \/ \E r \in DOMAIN mem : \E fail \in CleanupChoices(r) : action_needed(r, fail)
    \/ \E r \in DOMAIN mem : \E c \in ApproveChoices(r) : approve(r, c.send_email, c.fail)
    \/ \E r \in DOMAIN mem : withdraw(r)
    \/ \E r \in DOMAIN mem : \E fail \in CleanupChoices(r) : reject(r, fail)
    \/ \E r \in DOMAIN mem : \E fail \in CleanupChoices(r) : reject_with_prejudice(r, fail)
    \/ \E r \in DOMAIN mem : Save(r)
    \/ \E r \in DOMAIN mem : Load(r)
    \/ \E dom \in domains, state \in RegistryStates : domain_state_changes(dom, state)
    \/ Tick

\* every call above runs from its first statement to its last with nothing in between
Next == Call /\ UNCHANGED <<pc, inst, org_rows>>

Spec == Init /\ [][Next]_vars

(***************************************************************************)
(* Two callers approving two requests for the same name at once.  approve  *)
(* takes no lock and opens no transaction, so another caller's statements  *)
(* can run between its name check (line 1001) and its                      *)
(* Domain.objects.create (line 1005).  approve_check is approve up to the  *)
(* check, approve_finish the rest.  Whether the Domain table itself        *)
(* refuses a second row of the same name is not decided by the sources:    *)
(* `unique` is that choice, and a refusal is the IntegrityError of the     *)
(* create.                                                                 *)
(***************************************************************************)
InitConc ==
    /\ \E c1 \in Creators, c2 \in Creators, a \in FederalAgencies :
          LET rows == [r \in {"r1", "r2"} |->
                          NewRow(IF r = "r1" THEN c1 ELSE c2, "analyst", ValidName, a)]
          IN  /\ db = rows
              /\ mem = [r \in {"r1", "r2"} |-> Instance(rows[r])]
    /\ domains = {}
    /\ nextId = 1
    /\ infos = {}
    /\ roles = {}
    /\ restricted = {}
    /\ today = 1
    /\ last = [op |-> "init", req |-> NULL, result |-> "ok"]
    /\ pc = [r \in {"r1", "r2"} |-> "idle"]
    /\ outbox = <<>>
    /\ inst = NULL
    /\ org_rows = <<>>

submit_conc(r) ==
    /\ pc[r] = "idle"
    /\ submit(r)
    /\ UNCHANGED <<pc, inst, org_rows>>

approve_check(r) ==
    LET m == mem[r]
        s == approve_default_agency(m, today)
        rows == IF m.federal_agency = NULL THEN [db EXCEPT ![r] = s.row] ELSE db
    IN  /\ pc[r] = "idle"
        /\ UNCHANGED <<restricted, today, inst, org_rows>>
        /\ IF approve_passes(m, s)
           THEN /\ mem' = [mem EXCEPT ![r] = s.mem]
                /\ db' = rows
                /\ pc' = [pc EXCEPT ![r] = "create"]
                /\ Called("approve_check", r, "ok")
                /\ UNCHANGED <<domains, infos, roles, nextId>>
           ELSE /\ approve_refused(r, m, s, rows)
                /\ UNCHANGED pc

approve_finish(r, send_email, fail, unique) ==
    /\ pc[r] = "create"
    /\ pc' = [pc EXCEPT ![r] = "idle"]
    /\ UNCHANGED <<restricted, today, inst, org_rows>>
    /\ IF unique /\ DomainNameExists(mem[r].requested_domain)
       THEN /\ Called("approve", r, "IntegrityError")
            /\ UNCHANGED <<mem, db, domains, infos, roles, nextId>>
       ELSE approve_create(r, mem[r], db, send_email, fail)

NextConc ==
    \/ \E r \in DOMAIN mem : submit_conc(r)
    \/ \E r \in DOMAIN mem : approve_check(r)
    \/ \E r \in DOMAIN mem, send_email \in BOOLEAN, fail \in ApproveFailures, unique \in BOOLEAN :
          approve_finish(r, send_email, fail, unique)

SpecConc == InitConc /\ [][NextConc]_vars

(***************************************************************************)
(* An analyst at work on a request: the request exists in SUBMITTED (as    *)
(* tests/test_views.py:888-894 creates one), the analyst moves it through  *)
(* review, fills in the reason of an ACTION_NEEDED or REJECTED status with *)
(* the email that explains it, and saves.  The reason fields are plain     *)
(* model fields: whoever holds the instance assigns them.                  *)
(***************************************************************************)
\* the email text that goes with a reason
ReasonEmail(reason) ==
    CASE reason = "eligibility_unclear" -> "We need more about your eligibility"
      [] reason = "bad_name" -> "The name does not meet the requirements"
      [] reason = REASON_OTHER -> "Something else"
      [] reason = "domain_purpose" -> "The purpose requirements are not met"
      [] reason = NULL -> NULL

InitReasons ==
    /\ \E c \in Creators :
          LET row == [NewRow(c, "analyst", ValidName, NULL) EXCEPT !.status = SUBMITTED]
          IN  /\ db = [r \in {"r1"} |-> row]
              /\ mem = [r \in {"r1"} |-> Instance(row)]
    /\ domains = {}
    /\ nextId = 1
    /\ infos = {}
    /\ roles = {}
    /\ restricted = {}
    /\ today = 1
    /\ last = [op |-> "init", req |-> NULL, result |-> "ok"]
    /\ pc = [r \in {"r1"} |-> "idle"]
    /\ outbox = <<>>
    /\ inst = NULL
    /\ org_rows = <<>>

\* request.action_needed_reason = ...; request.action_needed_reason_email = ...
set_action_needed_reason(r, reason, with_email) ==
    /\ mem' = [mem EXCEPT ![r] =
                  [@ EXCEPT !.action_needed_reason = reason,
                            !.action_needed_reason_email =
                                IF with_email THEN ReasonEmail(reason) ELSE NULL]]
    /\ Called("set_action_needed_reason", r, "ok")
    /\ UNCHANGED <<db, domains, infos, roles, restricted, today, nextId>>

\* request.rejection_reason = ...; request.rejection_reason_email = ...
set_rejection_reason(r, reason, with_email) ==
    /\ mem' = [mem EXCEPT ![r] =
                  [@ EXCEPT !.rejection_reason = reason,
                            !.rejection_reason_email =
                                IF with_email THEN ReasonEmail(reason) ELSE NULL]]
    /\ Called("set_rejection_reason", r, "ok")
    /\ UNCHANGED <<db, domains, infos, roles, restricted, today, nextId>>

NextReasons ==
    /\ UNCHANGED <<pc, inst, org_rows>>
    /\ \/ \E r \in DOMAIN mem : in_review(r, "none")
       \/ \E r \in DOMAIN mem : action_needed(r, "none")
       \/ \E r \in DOMAIN mem : reject(r, "none")
       \/ \E r \in DOMAIN mem : Save(r)
       \/ \E r \in DOMAIN mem : Load(r)
       \/ \E r \in DOMAIN mem, reason \in ActionNeededReasons \cup {NULL}, with_email \in BOOLEAN :
             set_action_needed_reason(r, reason, with_email)
       \/ \E r \in DOMAIN mem, reason \in RejectionReasons \cup {NULL}, with_email \in BOOLEAN :
             set_rejection_reason(r, reason, with_email)

SpecReasons == InitReasons /\ [][NextReasons]_vars

(***************************************************************************)
(* The organization type.  generic_org_type, is_election_board and         *)
(* organization_type are three fields of DomainRequest and of              *)
(* DomainInformation; the pre_save receiver                                *)
(* create_or_update_organization_type (signals.py) brings them in line     *)
(* before a row is written.                                                *)
(***************************************************************************)
\* DomainRequest.OrganizationChoices
OrganizationChoices ==
    {"federal", "interstate", "state_or_territory", "tribal", "county", "city",
     "special_district", "school_district"}

\* OrgChoicesElectionOffice.get_org_election_to_org_generic()
get_org_election_to_org_generic ==
    ("state_or_territory_election" :> "state_or_territory")
        @@ ("tribal_election" :> "tribal")
        @@ ("county_election" :> "county")
        @@ ("city_election" :> "city")
        @@ ("special_district_election" :> "special_district")

\* OrgChoicesElectionOffice.get_org_generic_to_org_election()
get_org_generic_to_org_election ==
    ("state_or_territory" :> "state_or_territory_election")
        @@ ("tribal" :> "tribal_election")
        @@ ("county" :> "county_election")
        @@ ("city" :> "city_election")
        @@ ("special_district" :> "special_district_election")

\* DomainRequest.OrgChoicesElectionOffice: the generic values and the election variants
OrgChoicesElectionOffice ==
    OrganizationChoices \cup
        {"state_or_territory_election", "tribal_election", "county_election", "city_election",
         "special_district_election"}

\* is_election_board, a nullable BooleanField: None, True or False
True == "True"
False == "False"
ElectionBoardValues == {NULL, True, False}

\* str(): the text "None" for None, which is not None; a string is itself
StrOfNone == "str(None)"
str(x) == IF x = NULL THEN StrOfNone ELSE x

\* Python truth of a nullable field: None and False are false
truthy(x) == x \notin {NULL, False}

\* "_election" in organization_type
contains_election(organization_type) ==
    organization_type \in DOMAIN get_org_election_to_org_generic

\* _update_org_type_from_generic_org_and_election taking the else branch always
update_org_type_from_generic_org_and_election_Plain(instance) ==
    LET generic_org_type == str(instance.generic_org_type)
    IN  [instance EXCEPT !.organization_type = generic_org_type]

\* _update_org_type_from_generic_org_and_election
update_org_type_from_generic_org_and_election(instance) ==
    LET generic_org_type == str(instance.generic_org_type)
        org_map == get_org_generic_to_org_election
    IN  IF generic_org_type \in DOMAIN org_map /\ truthy(instance.is_election_board)
        THEN [instance EXCEPT !.organization_type = org_map[generic_org_type]]
        ELSE [instance EXCEPT !.organization_type = generic_org_type]

\* _update_generic_org_and_election_from_org_type with line 153 setting False
update_generic_org_and_election_from_org_type_FlagCleared(instance) ==
    LET current_org_type == str(instance.organization_type)
        org_map == get_org_election_to_org_generic
    IN  IF current_org_type \in DOMAIN org_map
        THEN [instance EXCEPT !.generic_org_type = org_map[current_org_type],
                              !.is_election_board = False]
        ELSE [instance EXCEPT !.generic_org_type = current_org_type,
                              !.is_election_board = False]

\* _update_generic_org_and_election_from_org_type
update_generic_org_and_election_from_org_type(instance) ==
    LET current_org_type == str(instance.organization_type)
        org_map == get_org_election_to_org_generic
    IN  IF current_org_type \in DOMAIN org_map
        THEN [instance EXCEPT !.generic_org_type = org_map[current_org_type],
                              !.is_election_board = True]
        ELSE [instance EXCEPT !.generic_org_type = current_org_type,
                              !.is_election_board = False]

\* a record that has not been saved has no primary key (instance.id is None)
NoId == 0
\* the rows a table of the model holds
MaxRows == 1

\* the model classes the receiver is registered for
Senders == {"DomainRequest", "DomainInformation"}

\* the three fields of a row or of an instance
OrgFields(x) ==
    [ generic_org_type |-> x.generic_org_type,
      is_election_board |-> x.is_election_board,
      organization_type |-> x.organization_type ]

(***************************************************************************)
(* create_or_update_organization_type, the new record (lines 44-81): the   *)
(* instance it leaves and the exception it raises, if any.  The test at    *)
(* lines 55-58 is a chained comparison followed by `or`:                   *)
(*   ("_election" in organization_type                                     *)
(*        and organization_type != instance.is_election_board)             *)
(*   or organization_type != generic_org_type                              *)
(***************************************************************************)
reconcile_new(instance) ==
    LET organization_type == str(instance.organization_type)
        generic_org_type == str(instance.generic_org_type)
    IN  IF instance.organization_type # NULL /\ instance.generic_org_type # NULL
        THEN IF \/ ( /\ contains_election(organization_type)
                     /\ organization_type # instance.is_election_board )
                \/ organization_type # generic_org_type
             THEN [instance |-> instance, err |-> "ValueError"]
             ELSE [instance |-> instance, err |-> "none"]
        ELSE IF instance.organization_type = NULL /\ instance.generic_org_type = NULL
        THEN [instance |-> instance, err |-> "none"]
        ELSE IF instance.organization_type = NULL
        THEN [instance |-> update_org_type_from_generic_org_and_election(instance),
              err |-> "none"]
        ELSE [instance |-> update_generic_org_and_election_from_org_type(instance),
              err |-> "none"]

(***************************************************************************)
(* create_or_update_organization_type, the record that has a primary key   *)
(* (lines 82-114), compared with current_instance.                         *)
(***************************************************************************)
reconcile_existing(instance, current_instance) ==
    LET generic_org_type_changed ==
            instance.generic_org_type # current_instance.generic_org_type
        is_election_board_changed ==
            instance.is_election_board # current_instance.is_election_board
        organization_type_changed ==
            instance.organization_type # current_instance.organization_type
    IN  IF organization_type_changed /\ (generic_org_type_changed \/ is_election_board_changed)
        THEN [instance |-> instance, err |-> "ValueError"]
        ELSE IF ~organization_type_changed
                /\ (~generic_org_type_changed /\ ~is_election_board_changed)
        THEN [instance |-> instance, err |-> "none"]
        ELSE IF generic_org_type_changed \/ is_election_board_changed
        THEN [instance |-> update_org_type_from_generic_org_and_election(instance),
              err |-> "none"]
        ELSE [instance |-> update_generic_org_and_election_from_org_type(instance),
              err |-> "none"]

(***************************************************************************)
(* create_or_update_organization_type.  current_instance is                *)
(* DomainRequest.objects.get(id=instance.id) (line 87) whatever the class  *)
(* of the instance; get raises DoesNotExist when there is no such row.     *)
(***************************************************************************)
create_or_update_organization_type(instance) ==
    IF instance.id = NoId
    THEN reconcile_new(instance)
    ELSE IF instance.id \notin DOMAIN org_rows["DomainRequest"]
    THEN [instance |-> instance, err |-> "DoesNotExist"]
    ELSE reconcile_existing(instance, org_rows["DomainRequest"][instance.id])

(***************************************************************************)
(* The callers: one builds a new record of either class, or loads a saved  *)
(* one and assigns its fields, and saves it.  A table is the sequence of   *)
(* its rows, the primary key of a row its place.  The values tried are     *)
(* None, a type that has an election variant, one that has none, and the   *)
(* variant.                                                                *)
(***************************************************************************)
GenericOrgTypeValues == {NULL, "tribal", "federal"}
OrganizationTypeValues == {NULL, "tribal", "tribal_election", "federal"}

InitOrg ==
    /\ \E sender \in Senders, g \in GenericOrgTypeValues, e \in ElectionBoardValues,
          o \in OrganizationTypeValues :
          inst = [sender |-> sender, id |-> NoId, generic_org_type |-> g,
                  is_election_board |-> e, organization_type |-> o]
    /\ org_rows = [sender \in Senders |-> <<>>]
    /\ mem = <<>>
    /\ db = <<>>
    /\ domains = {}
    /\ nextId = 1
    /\ infos = {}
    /\ roles = {}
    /\ restricted = {}
    /\ today = 1
    /\ last = [op |-> "init", req |-> NULL, result |-> "ok"]
    /\ pc = <<>>
    /\ outbox = <<>>

\* Model(generic_org_type=..., is_election_board=..., organization_type=...)
org_new(sender, g, e, o) ==
    /\ Len(org_rows[sender]) < MaxRows
    /\ inst' = [sender |-> sender, id |-> NoId, generic_org_type |-> g,
                is_election_board |-> e, organization_type |-> o]
    /\ Called("org_new", NULL, "ok")
    /\ UNCHANGED org_rows

\* Model.objects.get(id=...), then fields assigned (or left as they were read)
org_edit(sender, id, g, e, o) ==
    /\ id \in DOMAIN org_rows[sender]
    /\ g \in GenericOrgTypeValues \cup {org_rows[sender][id].generic_org_type}
    /\ o \in OrganizationTypeValues \cup {org_rows[sender][id].organization_type}
    /\ inst' = [sender |-> sender, id |-> id, generic_org_type |-> g,
                is_election_board |-> e, organization_type |-> o]
    /\ Called("org_edit", NULL, "ok")
    /\ UNCHANGED org_rows

\* instance.save(): the receiver runs, and unless it raises the row is written
org_save ==
    LET c == create_or_update_organization_type(inst)
        table == org_rows[inst.sender]
        id == IF inst.id = NoId THEN Len(table) + 1 ELSE inst.id
    IN  /\ inst.id = NoId => Len(table) < MaxRows
        /\ IF c.err # "none"
           THEN /\ Called("org_save", NULL, c.err)
                /\ UNCHANGED <<inst, org_rows>>
           ELSE /\ Called("org_save", NULL, "ok")
                /\ inst' = [c.instance EXCEPT !.id = id]
                /\ org_rows' =
                      [org_rows EXCEPT ![inst.sender] =
                          IF inst.id = NoId THEN Append(table, OrgFields(c.instance))
                          ELSE [table EXCEPT ![id] = OrgFields(c.instance)]]

NextOrg ==
    /\ UNCHANGED <<mem, db, domains, infos, roles, restricted, today, nextId, pc>>
    /\ \/ \E sender \in Senders, g \in GenericOrgTypeValues, e \in ElectionBoardValues,
               o \in OrganizationTypeValues : org_new(sender, g, e, o)
       \/ \E sender \in Senders, id \in 1..MaxRows, g \in GenericOrgTypeValues \cup {StrOfNone},
               e \in ElectionBoardValues, o \in OrganizationTypeValues \cup {StrOfNone} :
               org_edit(sender, id, g, e, o)
       \/ org_save

SpecOrg == InitOrg /\ [][NextOrg]_vars

(***************************************************************************)
(* The two helpers on their own: an instance whose generic_org_type is any *)
(* of the OrganizationChoices and whose is_election_board is None, True or *)
(* False, to which the helpers are applied in any order.                   *)
(***************************************************************************)
InitMaps ==
    /\ \E g \in OrganizationChoices, e \in ElectionBoardValues :
          inst = [sender |-> "DomainRequest", id |-> NoId, generic_org_type |-> g,
                  is_election_board |-> e, organization_type |-> NULL]
    /\ org_rows = [sender \in Senders |-> <<>>]
    /\ mem = <<>>
    /\ db = <<>>
    /\ domains = {}
    /\ nextId = 1
    /\ infos = {}
    /\ roles = {}
    /\ restricted = {}
    /\ today = 1
    /\ last = [op |-> "init", req |-> NULL, result |-> "ok"]
    /\ pc = <<>>
    /\ outbox = <<>>

\* instance.generic_org_type = g; instance.is_election_board = e
maps_assign(g, e) ==
    /\ inst' = [inst EXCEPT !.generic_org_type = g, !.is_election_board = e]
    /\ Called("assign", NULL, "ok")

\* _update_org_type_from_generic_org_and_election(instance)
maps_to_type ==
    /\ inst' = update_org_type_from_generic_org_and_election(inst)
    /\ Called("_update_org_type_from_generic_org_and_election", NULL, "ok")

\* _update_generic_org_and_election_from_org_type(instance), called when
\* organization_type is set
maps_to_generic ==
    /\ inst.organization_type # NULL
    /\ inst' = update_generic_org_and_election_from_org_type(inst)
    /\ Called("_update_generic_org_and_election_from_org_type", NULL, "ok")

NextMaps ==
    /\ UNCHANGED <<mem, db, domains, infos, roles, restricted, today, nextId, pc, org_rows>>
    /\ \/ \E g \in OrganizationChoices, e \in ElectionBoardValues : maps_assign(g, e)
       \/ maps_to_type
       \/ maps_to_generic

SpecMaps == InitMaps /\ [][NextMaps]_vars

(***************************************************************************)
(* The completeness of the form.  A field is None or holds a value; a text *)
(* field the code compares with "" can also be the empty string; the       *)
(* other_contacts relation is the set of the kinds of contact it holds, a  *)
(* contact being filled when none of first_name, last_name, title, email   *)
(* and phone is null.                                                      *)
(***************************************************************************)
SET == "set"
EMPTY == ""
Filled == "filled"
Unfilled == "unfilled"

PresenceFields ==
    {"creator", "organization_name", "address_line1", "city", "state_territory", "zipcode",
     "senior_official", "requested_domain", "purpose", "federal_type", "federal_agency",
     "about_your_organization", "tribe_name"}
TextFields ==
    {"no_other_contacts_rationale", "cisa_representative_first_name",
     "cisa_representative_last_name", "anything_else"}
BooleanFields ==
    {"has_cisa_representative", "has_anything_else_text", "is_policy_acknowledged",
     "is_election_board"}
FormFields ==
    PresenceFields \cup TextFields \cup BooleanFields \cup {"other_contacts", "generic_org_type"}

FieldValues(field) ==
    IF field \in PresenceFields THEN {NULL, SET}
    ELSE IF field \in TextFields THEN {NULL, EMPTY, SET}
    ELSE IF field \in BooleanFields THEN {NULL, True, False}
    ELSE IF field = "other_contacts" THEN SUBSET {Filled, Unfilled}
    ELSE OrganizationChoices \cup {NULL}

\* self.other_contacts.exists()
has_other_contacts(self) == self.other_contacts # {}

is_federal_complete(self) == ~(self.federal_type = NULL \/ self.federal_agency = NULL)
is_interstate_complete(self) == self.about_your_organization # NULL
is_state_or_territory_complete(self) == self.is_election_board # NULL
is_tribal_complete(self) == self.tribe_name # NULL /\ self.is_election_board # NULL
is_county_complete(self) == self.is_election_board # NULL
is_city_complete(self) == self.is_election_board # NULL
is_special_district_complete(self) ==
    self.is_election_board # NULL /\ self.about_your_organization # NULL

is_creator_complete(self) == self.creator # NULL

\* not (every one of the five is None)
is_organization_name_and_address_complete(self) ==
    ~( /\ self.organization_name = NULL
       /\ self.address_line1 = NULL
       /\ self.city = NULL
       /\ self.state_territory = NULL
       /\ self.zipcode = NULL )

is_senior_official_complete(self) == self.senior_official # NULL
is_requested_domain_complete(self) == self.requested_domain # NULL
is_purpose_complete(self) == self.purpose # NULL

has_other_contacts_and_filled(self) ==
    has_other_contacts(self) /\ Filled \in self.other_contacts

has_no_other_contacts_gives_rationale(self) ==
    ~has_other_contacts(self) /\ self.no_other_contacts_rationale # NULL

is_other_contacts_complete(self) ==
    has_other_contacts_and_filled(self) \/ has_no_other_contacts_gives_rationale(self)

cisa_rep_check(self) ==
    \/ /\ self.has_cisa_representative = True
       /\ self.cisa_representative_first_name # NULL
       /\ self.cisa_representative_first_name # EMPTY
       /\ self.cisa_representative_last_name # NULL
       /\ self.cisa_representative_last_name # EMPTY
    \/ self.has_cisa_representative = False

anything_else_radio_button_and_text_field_check(self) ==
    \/ /\ self.has_anything_else_text = True
       /\ self.anything_else # NULL
       /\ self.anything_else # EMPTY
    \/ self.has_anything_else_text = False

is_additional_details_complete(self) ==
    cisa_rep_check(self) /\ anything_else_radio_button_and_text_field_check(self)

is_policy_acknowledgement_complete(self) == self.is_policy_acknowledged # NULL

is_general_form_complete(self) ==
    /\ is_creator_complete(self)
    /\ is_organization_name_and_address_complete(self)
    /\ is_senior_official_complete(self)
    /\ is_requested_domain_complete(self)
    /\ is_purpose_complete(self)
    /\ is_other_contacts_complete(self)
    /\ is_additional_details_complete(self)
    /\ is_policy_acknowledgement_complete(self)

\* the local is_complete of _form_complete: the match on generic_org_type
is_complete(self) ==
    CASE self.generic_org_type = "federal" -> is_federal_complete(self)
      [] self.generic_org_type = "interstate" -> is_interstate_complete(self)
      [] self.generic_org_type = "state_or_territory" -> is_state_or_territory_complete(self)
      [] self.generic_org_type = "tribal" -> is_tribal_complete(self)
      [] self.generic_org_type = "county" -> is_county_complete(self)
      [] self.generic_org_type = "city" -> is_city_complete(self)
      [] self.generic_org_type = "special_district" -> is_special_district_complete(self)
      [] self.generic_org_type = "school_district" -> TRUE
      [] OTHER -> FALSE

form_complete(self) ==
    IF ~is_complete(self) \/ ~is_general_form_complete(self) THEN FALSE ELSE TRUE

\* a Python bool as the model writes it
bool(b) == IF b THEN True ELSE False

\* DomainRequest(): every field None, no other contact
BlankForm ==
    [field \in FormFields |->
        IF field = "other_contacts" THEN {} ELSE NULL]

\* a form of the given type with every page filled in
FilledForm(generic_org_type) ==
    [field \in FormFields |->
        CASE field = "other_contacts" -> {Filled}
          [] field = "generic_org_type" -> generic_org_type
          [] field \in BooleanFields -> True
          [] OTHER -> SET]

\* the assignments made to a form between two looks at it
MaxEdits == 2

InitForm ==
    /\ inst \in {BlankForm} \cup {FilledForm(g) : g \in OrganizationChoices}
    /\ pc = {}
    /\ org_rows = <<>>
    /\ mem = <<>>
    /\ db = <<>>
    /\ domains = {}
    /\ nextId = 1
    /\ infos = {}
    /\ roles = {}
    /\ restricted = {}
    /\ today = 1
    /\ last = [op |-> "init", req |-> NULL, result |-> "ok"]
    /\ outbox = <<>>

\* self.<field> = value; pc holds the fields assigned so far
form_assign(field, value) ==
    /\ field \notin pc
    /\ Cardinality(pc) < MaxEdits
    /\ value # inst[field]
    /\ inst' = [inst EXCEPT ![field] = value]
    /\ pc' = pc \cup {field}
    /\ Called("assign", NULL, "ok")

\* self._form_complete(request)
form_check ==
    /\ Called("_form_complete", NULL, bool(form_complete(inst)))
    /\ UNCHANGED <<inst, pc>>

NextForm ==
    /\ UNCHANGED <<mem, db, domains, infos, roles, restricted, today, nextId, org_rows>>
    /\ \/ \E field \in FormFields : \E value \in FieldValues(field) : form_assign(field, value)
       \/ form_check

SpecForm == InitForm /\ [][NextForm]_vars

(***************************************************************************)
(* The transition table of the specification (section 4.1), written out    *)
(* independently of the decorators above.                                  *)
(***************************************************************************)
Events ==
    {"submit", "in_review", "action_needed", "approve", "withdraw", "reject",
     "reject_with_prejudice"}

TableSources(event) ==
    CASE event = "submit" -> {STARTED, IN_REVIEW, ACTION_NEEDED, WITHDRAWN}
      [] event = "in_review" -> {SUBMITTED, ACTION_NEEDED, APPROVED, REJECTED, INELIGIBLE}
      [] event = "action_needed" -> {IN_REVIEW, APPROVED, REJECTED, INELIGIBLE}
      [] event = "approve" -> {SUBMITTED, IN_REVIEW, ACTION_NEEDED, REJECTED}
      [] event = "withdraw" -> {SUBMITTED, IN_REVIEW, ACTION_NEEDED}
      [] event = "reject" -> {IN_REVIEW, ACTION_NEEDED, APPROVED}
      [] event = "reject_with_prejudice" -> {IN_REVIEW, ACTION_NEEDED, APPROVED, REJECTED}

TableTarget(event) ==
    CASE event = "submit" -> SUBMITTED
      [] event = "in_review" -> IN_REVIEW
      [] event = "action_needed" -> ACTION_NEEDED
      [] event = "approve" -> APPROVED
      [] event = "withdraw" -> WITHDRAWN
      [] event = "reject" -> REJECTED
      [] event = "reject_with_prejudice" -> INELIGIBLE

\* the step just taken is a call of a transition event on request r
EventStep(r) == last'.req = r /\ last'.op \in Events

(***************************************************************************)
(* C1: every successful transition call moves the status of the instance   *)
(* along an edge of the table (from one of the event's sources to its      *)
(* target), a failed call leaves the status alone, and no other call       *)
(* changes the status of an instance; a load replaces the instance by its  *)
(* row.                                                                    *)
(***************************************************************************)
C1_Step(r) ==
    LET from == mem[r].status
        to == mem'[r].status
    IN  IF EventStep(r)
        THEN IF last'.result = "ok"
             THEN from \in TableSources(last'.op) /\ to = TableTarget(last'.op)
             ELSE to = from
        ELSE IF last'.op = "load" /\ last'.req = r
        THEN to = db[r].status
        ELSE to = from

C1_StatusFollowsTable == [][\A r \in DOMAIN mem : C1_Step(r)]_vars

\* a request taken over three edges: submit, in_review, reject_with_prejudice
C1_Witness ==
    \E r \in DOMAIN mem :
        /\ last = [op |-> "reject_with_prejudice", req |-> r, result |-> "ok"]
        /\ mem[r].status = INELIGIBLE
        /\ mem[r].first_submitted_date # NoDate

(***************************************************************************)
(* C2: in every reachable state approved_domain is set if and only if the  *)
(* status is APPROVED.                                                     *)
(***************************************************************************)
C2_ApprovedDomainIffApproved ==
    \A r \in DOMAIN mem : (mem[r].approved_domain # NoDomain) <=> (mem[r].status = APPROVED)

(***************************************************************************)
(* C3: an event called from a status that is not one of its sources fails  *)
(* with django-fsm's TransitionNotAllowed and leaves the instance and its  *)
(* row as they were.                                                       *)
(***************************************************************************)
C3_Step(r) ==
    (EventStep(r) /\ mem[r].status \notin TableSources(last'.op))
        => /\ last'.result = "TransitionNotAllowed"
           /\ mem'[r] = mem[r]
           /\ db'[r] = db[r]

C3_IllegalSourceFails == [][\A r \in DOMAIN mem : C3_Step(r)]_vars

\* submit refused on an approved request
C3_Witness ==
    \E r \in DOMAIN mem :
        /\ last = [op |-> "submit", req |-> r, result |-> "TransitionNotAllowed"]
        /\ mem[r].status = APPROVED

(***************************************************************************)
(* C4: a transition call that fails a guard (a django-fsm source or        *)
(* condition, the ValueErrors of submit, the name check of approve)        *)
(* changes no field of the request, in the instance or in its row.         *)
(***************************************************************************)
GuardFailures == {"TransitionNotAllowed", "ValueError", "FSMDomainRequestError"}

C4_Step(r) ==
    (EventStep(r) /\ last'.result \in GuardFailures)
        => /\ mem'[r] = mem[r]
           /\ db'[r] = db[r]

C4_GuardFailureChangesNothing == [][\A r \in DOMAIN mem : C4_Step(r)]_vars

(***************************************************************************)
(* C5: approve of a request whose requested name already exists as a       *)
(* Domain (its source status and investigator being in order) fails with   *)
(* the name-in-use error, leaves the status as it was and approved_domain  *)
(* None, and creates no Domain, DomainInformation or UserDomainRole.       *)
(***************************************************************************)
C5_Step(r) ==
    ( /\ last'.req = r /\ last'.op = "approve"
      /\ mem[r].status \in TableSources("approve")
      /\ mem[r].investigator = "analyst"
      /\ \E dom \in domains : dom.name = mem[r].requested_domain )
        => /\ last'.result = "FSMDomainRequestError"
           /\ mem'[r].status = mem[r].status
           /\ mem'[r].approved_domain = NoDomain
           /\ db'[r].approved_domain = NoDomain
           /\ domains' = domains /\ infos' = infos /\ roles' = roles

C5_NameInUseApprovesNothing == [][\A r \in DOMAIN mem : C5_Step(r)]_vars

(***************************************************************************)
(* C6: approve is all-or-nothing: a call of approve that does not succeed  *)
(* leaves no Domain, DomainInformation or UserDomainRole behind, and       *)
(* leaves the status and approved_domain of the request as they were.      *)
(***************************************************************************)
C6_Step(r) ==
    (last'.req = r /\ last'.op = "approve" /\ last'.result # "ok")
        => /\ domains' = domains /\ infos' = infos /\ roles' = roles
           /\ mem'[r].status = mem[r].status
           /\ mem'[r].approved_domain = mem[r].approved_domain
           /\ db'[r].approved_domain = db[r].approved_domain

C6_ApproveAllOrNothing == [][\A r \in DOMAIN mem : C6_Step(r)]_vars

(***************************************************************************)
(* C7: when two callers approve two requests for the same name at once,    *)
(* then however their name checks and creates interleave, no two Domain    *)
(* rows have the same name and at most one of the requests is APPROVED.    *)
(***************************************************************************)
C7_OneDomainOneApproval ==
    /\ \A d1 \in domains, d2 \in domains : d1.name = d2.name => d1.id = d2.id
    /\ Cardinality({r \in DOMAIN mem : mem[r].status = APPROVED}) <= 1

(***************************************************************************)
(* C8: in_review, action_needed, reject and reject_with_prejudice succeed  *)
(* only with an investigator who is staff and an approved domain that is   *)
(* absent or not active; approve succeeds only with an investigator who is *)
(* staff; submit and withdraw are refused for their source status only.    *)
(* So no transition takes a request out of APPROVED while its approved     *)
(* domain is active.                                                       *)
(***************************************************************************)
C8_StaffInvestigator(m) == m.investigator = "analyst"

C8_DomainActive(m) == \E dom \in DomainById(m.approved_domain) : is_active(dom)

C8_Step(r) ==
    LET op == last'.op
        m == mem[r]
    IN  EventStep(r) =>
          /\ (last'.result = "ok" /\ op \in {"in_review", "action_needed", "reject",
                                             "reject_with_prejudice"})
                => (C8_StaffInvestigator(m) /\ ~C8_DomainActive(m))
          /\ (last'.result = "ok" /\ op = "approve") => C8_StaffInvestigator(m)
          /\ (op \in {"submit", "withdraw"} /\ last'.result = "TransitionNotAllowed")
                => m.status \notin TableSources(op)
          /\ (m.status = APPROVED /\ C8_DomainActive(m)) => mem'[r].status = APPROVED

C8_GuardsHold == [][\A r \in DOMAIN mem : C8_Step(r)]_vars

\* reject refused on an approved request whose domain is ready
C8_Witness ==
    \E r \in DOMAIN mem :
        /\ last = [op |-> "reject", req |-> r, result |-> "TransitionNotAllowed"]
        /\ mem[r].status = APPROVED
        /\ C8_StaffInvestigator(mem[r])
        /\ C8_DomainActive(mem[r])

(***************************************************************************)
(* C9: after a successful approve of a request with requested name n the   *)
(* status is APPROVED, approved_domain is a Domain named n, that domain    *)
(* has a DomainInformation copied from the request and the creator is its  *)
(* manager, and federal_agency is set: to the Non-Federal Agency record    *)
(* when it was unset, to what it was otherwise.                            *)
(***************************************************************************)
C9_Step(r) ==
    LET m == mem[r]
        a == mem'[r]
    IN  (last'.req = r /\ last'.op = "approve" /\ last'.result = "ok")
          => /\ a.status = APPROVED
             /\ a.approved_domain # NoDomain
             /\ \E dom \in domains' : dom.id = a.approved_domain /\ dom.name = m.requested_domain
             /\ \E x \in infos' : /\ x.domain = a.approved_domain
                                  /\ x.domain_request = r
                                  /\ x.creator = m.creator
                                  /\ x.federal_agency = a.federal_agency
             /\ [user |-> m.creator, domain |-> a.approved_domain, role |-> "manager"] \in roles'
             /\ a.federal_agency # NULL
             /\ a.federal_agency = IF m.federal_agency = NULL THEN "Non-Federal Agency"
                                   ELSE m.federal_agency

C9_ApproveProvisions == [][\A r \in DOMAIN mem : C9_Step(r)]_vars

\* an approve that defaulted the agency
C9_Witness ==
    \E r \in DOMAIN mem :
        /\ last = [op |-> "approve", req |-> r, result |-> "ok"]
        /\ mem[r].status = APPROVED
        /\ mem[r].federal_agency = "Non-Federal Agency"
        /\ \E dom \in domains : dom.id = mem[r].approved_domain

(***************************************************************************)
(* C10: first_submitted_date, once set, never changes; a successful submit *)
(* leaves it set (to today when it was unset) and sets last_submitted_date *)
(* to today; no call other than submit changes either date; and            *)
(* first_submitted_date <= last_submitted_date whenever both are set.  In  *)
(* the instance and in the row alike.                                      *)
(***************************************************************************)
C10_DatesOrdered(x) ==
    (x.first_submitted_date # NoDate /\ x.last_submitted_date # NoDate)
        => x.first_submitted_date <= x.last_submitted_date

C10_Kept(x, y) ==
    /\ x.first_submitted_date # NoDate => y.first_submitted_date = x.first_submitted_date
    /\ C10_DatesOrdered(y)

C10_Step(r) ==
    /\ C10_Kept(mem[r], mem'[r])
    /\ C10_Kept(db[r], db'[r])
    /\ (last'.req = r /\ last'.op = "submit" /\ last'.result = "ok")
          => /\ mem'[r].last_submitted_date = today
             /\ mem'[r].first_submitted_date =
                    IF mem[r].first_submitted_date = NoDate THEN today
                    ELSE mem[r].first_submitted_date
             /\ db'[r].last_submitted_date = mem'[r].last_submitted_date
             /\ db'[r].first_submitted_date = mem'[r].first_submitted_date
    /\ ~(last'.req = r /\ last'.op = "submit")
          => /\ mem'[r].first_submitted_date \in
                    {mem[r].first_submitted_date, db[r].first_submitted_date}
             /\ mem'[r].last_submitted_date \in
                    {mem[r].last_submitted_date, db[r].last_submitted_date}
             /\ db'[r].first_submitted_date \in
                    {mem[r].first_submitted_date, db[r].first_submitted_date}
             /\ db'[r].last_submitted_date \in
                    {mem[r].last_submitted_date, db[r].last_submitted_date}

Requested(event) == SelectSeq(outbox', LAMBDA n : n.new_status = event)

(***************************************************************************)
(* C11: a successful submit requests the submission confirmation exactly   *)
(* once when the status it leaves is STARTED or WITHDRAWN, and does not    *)
(* request it when the status it leaves is IN_REVIEW or ACTION_NEEDED.     *)
(***************************************************************************)
C11_Step(r) ==
    (last'.req = r /\ last'.op = "submit" /\ last'.result = "ok")
        => Len(Requested("submission confirmation")) =
              IF mem[r].status \in {STARTED, WITHDRAWN} THEN 1 ELSE 0

C11_SubmitConfirmation == [][\A r \in DOMAIN mem : C11_Step(r)]_vars

(***************************************************************************)
(* C12: while a request stays in ACTION_NEEDED with an email text and a    *)
(* reason other than OTHER, a save whose reason is the one already saved   *)
(* hands nothing to send_templated_email, and a save whose reason differs  *)
(* from the one already saved sends exactly one email, with the text of    *)
(* the new reason.  So saving one reason again and again sends at most one *)
(* email, and saving reason A and then reason B sends two.                 *)
(***************************************************************************)
C12_Step(r) ==
    LET m == mem[r]
    IN  ( /\ last'.req = r /\ last'.op = "save"
          /\ m.status = ACTION_NEEDED /\ db[r].status = ACTION_NEEDED
          /\ m.action_needed_reason \notin {NULL, REASON_OTHER}
          /\ m.action_needed_reason_email # NULL )
            => IF db[r].action_needed_reason = m.action_needed_reason
               THEN outbox' = <<>>
               ELSE /\ Len(outbox') = 1
                    /\ outbox'[1].custom_email_content = ReasonEmail(m.action_needed_reason)
                    /\ outbox'[1].outcome = "sent"

C12_OneEmailPerReason == [][\A r \in DOMAIN mem : C12_Step(r)]_vars

(***************************************************************************)
(* C13: a send that fails never reaches the caller: whenever a call of     *)
(* send_templated_email made by a transition or by save() does not end in  *)
(* an email sent, the transition or save() still returns normally.         *)
(***************************************************************************)
C13_Step ==
    (\E i \in 1..Len(outbox') : outbox'[i].outcome # "sent") => last'.result = "ok"

C13_SendFailureNeverPropagates == [][C13_Step]_vars

(***************************************************************************)
(* C14: a successful withdraw requests the withdrawn email exactly once, a *)
(* successful approve requests the approved email exactly once when        *)
(* send_email is true and not at all when it is false, and in_review,      *)
(* reject and reject_with_prejudice request nothing.                       *)
(***************************************************************************)
C14_Step(r) ==
    /\ (withdraw(r) /\ last'.result = "ok") => Len(Requested("withdraw")) = 1
    /\ \A send_email \in BOOLEAN, fail \in ApproveFailures :
          (approve(r, send_email, fail) /\ last'.result = "ok")
              => Len(Requested("domain request approved")) = IF send_email THEN 1 ELSE 0
    /\ (last'.req = r /\ last'.op \in {"in_review", "reject", "reject_with_prejudice"})
          => outbox' = <<>>

C14_TransitionNotifications == [][\A r \in DOMAIN mem : C14_Step(r)]_vars

(***************************************************************************)
(* C15: a successful reject_with_prejudice restricts the creator of the    *)
(* request, and no call made afterwards, on this request or any other,     *)
(* lifts a restriction.                                                    *)
(***************************************************************************)
C15_Step(r) ==
    /\ restricted \subseteq restricted'
    /\ (last'.req = r /\ last'.op = "reject_with_prejudice" /\ last'.result = "ok")
          => mem[r].creator \in restricted'

C15_RestrictionStays == [][\A r \in DOMAIN mem : C15_Step(r)]_vars

\* a request taken out of INELIGIBLE and approved, its creator still restricted
C15_Witness ==
    \E r \in DOMAIN mem :
        /\ last = [op |-> "approve", req |-> r, result |-> "ok"]
        /\ mem[r].status = APPROVED
        /\ mem[r].creator \in restricted

(***************************************************************************)
(* C16: INELIGIBLE is terminal: no event called on a request whose status  *)
(* is INELIGIBLE succeeds, and the status stays INELIGIBLE.                *)
(***************************************************************************)
C16_Step(r) ==
    (EventStep(r) /\ mem[r].status = INELIGIBLE)
        => /\ last'.result # "ok"
           /\ mem'[r].status = INELIGIBLE

C16_IneligibleIsTerminal == [][\A r \in DOMAIN mem : C16_Step(r)]_vars

(***************************************************************************)
(* C17: after every successful save of a request, new or existing, its     *)
(* organization_type is the value derived from generic_org_type and        *)
(* is_election_board: the "_election" variant when is_election_board is    *)
(* true and the generic type has one, the generic type otherwise.          *)
(***************************************************************************)
DerivedOrganizationType(generic_org_type, is_election_board) ==
    IF is_election_board = True /\ generic_org_type \in DOMAIN get_org_generic_to_org_election
    THEN get_org_generic_to_org_election[generic_org_type]
    ELSE generic_org_type

RequestSaved ==
    /\ inst.sender = "DomainRequest"
    /\ last' = [op |-> "org_save", req |-> NULL, result |-> "ok"]

C17_Step ==
    RequestSaved =>
        LET row == org_rows'["DomainRequest"][inst'.id]
        IN  row.organization_type
                = DerivedOrganizationType(row.generic_org_type, row.is_election_board)

C18_Step ==
    ( /\ inst.id = NoId
      /\ inst.organization_type # NULL
      /\ inst.generic_org_type # NULL
      /\ last'.op = "org_save" )
        => IF inst.organization_type
                = DerivedOrganizationType(inst.generic_org_type, inst.is_election_board)
           THEN last'.result = "ok"
           ELSE last'.result = "ValueError"

C18_NewRecordBothSupplied == [][C18_Step]_vars

(***************************************************************************)
(* C19: on an existing record, a save that changes organization_type       *)
(* together with generic_org_type or is_election_board, relative to the    *)
(* persisted values, is rejected with the reconciliation error             *)
(* (ValueError), and none of the three fields is changed in storage.       *)
(***************************************************************************)
C19_Step ==
    ( /\ inst.id # NoId
      /\ last'.op = "org_save"
      /\ LET row == org_rows[inst.sender][inst.id]
         IN  /\ inst.organization_type # row.organization_type
             /\ \/ inst.generic_org_type # row.generic_org_type
                \/ inst.is_election_board # row.is_election_board )
        => /\ last'.result = "ValueError"
           /\ org_rows' = org_rows

C19_AmbiguousUpdateRejected == [][C19_Step]_vars

(***************************************************************************)
(* C20: for every generic type and election flag, deriving                 *)
(* organization_type from them, deriving generic_org_type and              *)
(* is_election_board back from that type, and deriving the type again      *)
(* gives the first type; and the generic-to-election map and the           *)
(* election-to-generic map are inverses of each other, and cover exactly   *)
(* state_or_territory, tribal, county, city and special_district.          *)
(***************************************************************************)
TypesWithElectionVariant ==
    {"state_or_territory", "tribal", "county", "city", "special_district"}

RoundTrip(instance) ==
    LET first == update_org_type_from_generic_org_and_election(instance)
        back == update_generic_org_and_election_from_org_type(first)
        again == update_org_type_from_generic_org_and_election(back)
    IN  again.organization_type = first.organization_type

MapsAreInverses ==
    /\ DOMAIN get_org_generic_to_org_election = TypesWithElectionVariant
    /\ \A g \in DOMAIN get_org_generic_to_org_election :
          /\ get_org_generic_to_org_election[g] \in DOMAIN get_org_election_to_org_generic
          /\ get_org_election_to_org_generic[get_org_generic_to_org_election[g]] = g
    /\ \A t \in DOMAIN get_org_election_to_org_generic :
          /\ get_org_election_to_org_generic[t] \in DOMAIN get_org_generic_to_org_election
          /\ get_org_generic_to_org_election[get_org_election_to_org_generic[t]] = t

C20_RoundTripAndInverseMaps ==
    /\ RoundTrip(inst)
    /\ MapsAreInverses

\* a tribal election board whose type was derived and then taken back apart
C20_Witness ==
    /\ last.op = "_update_generic_org_and_election_from_org_type"
    /\ inst.generic_org_type = "tribal"
    /\ inst.is_election_board = True
    /\ inst.organization_type = "tribal_election"

(***************************************************************************)
(* C27: on a new record that supplies exactly one of generic_org_type and  *)
(* organization_type the save fills in the other.  From generic_org_type   *)
(* and is_election_board the type is the election variant when the flag is *)
(* true and a variant exists, the generic value otherwise; from the type,  *)
(* generic_org_type is the base type and is_election_board is true exactly *)
(* when the type is an election variant.  When neither is supplied no      *)
(* field is changed.                                                       *)
(***************************************************************************)
BaseType(organization_type) ==
    IF organization_type \in DOMAIN get_org_election_to_org_generic
    THEN get_org_election_to_org_generic[organization_type]
    ELSE organization_type

IsElectionVariant(organization_type) ==
    IF organization_type \in DOMAIN get_org_election_to_org_generic THEN True ELSE False

NewRecordSaved == inst.id = NoId /\ last'.op = "org_save"

SavedAs(fields) ==
    /\ last'.result = "ok"
    /\ OrgFields(inst') = fields
    /\ org_rows'[inst.sender][inst'.id] = fields

C27_Step ==
    NewRecordSaved =>
        /\ (inst.generic_org_type # NULL /\ inst.organization_type = NULL)
               => SavedAs([generic_org_type |-> inst.generic_org_type,
                           is_election_board |-> inst.is_election_board,
                           organization_type |->
                               DerivedOrganizationType(inst.generic_org_type,
                                                       inst.is_election_board)])
        /\ (inst.generic_org_type = NULL /\ inst.organization_type # NULL)
               => SavedAs([generic_org_type |-> BaseType(inst.organization_type),
                           is_election_board |-> IsElectionVariant(inst.organization_type),
                           organization_type |-> inst.organization_type])
        /\ (inst.generic_org_type = NULL /\ inst.organization_type = NULL)
               => SavedAs(OrgFields(inst))

PairChanged(instance, row) ==
    \/ instance.generic_org_type # row.generic_org_type
    \/ instance.is_election_board # row.is_election_board

TypeChanged(instance, row) == instance.organization_type # row.organization_type

C28_Cases(row) ==
    /\ (PairChanged(inst, row) /\ ~TypeChanged(inst, row))
           => SavedAs([generic_org_type |-> inst.generic_org_type,
                       is_election_board |-> inst.is_election_board,
                       organization_type |->
                           DerivedOrganizationType(inst.generic_org_type,
                                                   inst.is_election_board)])
    /\ (TypeChanged(inst, row) /\ ~PairChanged(inst, row))
           => SavedAs([generic_org_type |-> BaseType(inst.organization_type),
                       is_election_board |-> IsElectionVariant(inst.organization_type),
                       organization_type |-> inst.organization_type])
    /\ (~TypeChanged(inst, row) /\ ~PairChanged(inst, row))
           => SavedAs(OrgFields(inst))

C28_Step ==
    (inst.id # NoId /\ last'.op = "org_save")
        => C28_Cases(org_rows[inst.sender][inst.id])

C28_ExistingRecordRecomputes == [][C28_Step]_vars

(***************************************************************************)
(* C29: after every accepted save, organization_type is None or one of the *)
(* defined codes, the eight generic types and the five election variants;  *)
(* clearing generic_org_type on an existing record, or changing only       *)
(* is_election_board while generic_org_type is None, never stores another  *)
(* value.                                                                  *)
(***************************************************************************)
C29_Step ==
    (last'.op = "org_save" /\ last'.result = "ok")
        => org_rows'[inst.sender][inst'.id].organization_type
               \in OrgChoicesElectionOffice \cup {NULL}

C29_StoredTypeIsDefinedCode == [][C29_Step]_vars

(***************************************************************************)
(* C30: when an existing DomainInformation record is saved, the comparison *)
(* that decides what changed is made against the persisted values of that  *)
(* same record, never against another record such as the DomainRequest     *)
(* with the same id: the outcome of the save is the one that comparison    *)
(* gives.                                                                  *)
(***************************************************************************)
C30_Step ==
    ( /\ inst.sender = "DomainInformation"
      /\ inst.id # NoId
      /\ last'.op = "org_save" )
        => LET c == reconcile_existing(inst, org_rows["DomainInformation"][inst.id])
           IN  IF c.err = "none"
               THEN SavedAs(OrgFields(c.instance))
               ELSE last'.result = c.err /\ org_rows' = org_rows

C30_ComparedWithOwnRow == [][C30_Step]_vars

(***************************************************************************)
(* C21: _form_complete returns True only if every predicate that does not  *)
(* depend on the type holds: creator present; organization name, address   *)
(* line 1, city, state or territory and zip code all present; senior       *)
(* official, requested domain and purpose present; other contacts          *)
(* resolved, by a filled contact or by a non-empty rationale for having    *)
(* none; both additional-details answers yes-and-filled or no; and the     *)
(* policy acknowledged.                                                    *)
(***************************************************************************)
NameAndAddressPresent(self) ==
    \A field \in {"organization_name", "address_line1", "city", "state_territory", "zipcode"} :
        self[field] # NULL

OtherContactsResolved(self) ==
    \/ Filled \in self.other_contacts
    \/ self.other_contacts = {} /\ self.no_other_contacts_rationale \notin {NULL, EMPTY}

YesAndFilledOrNo(answer, texts) ==
    \/ answer = True /\ \A text \in texts : text \notin {NULL, EMPTY}
    \/ answer = False

AllGenericPredicates(self) ==
    /\ self.creator # NULL
    /\ NameAndAddressPresent(self)
    /\ self.senior_official # NULL
    /\ self.requested_domain # NULL
    /\ self.purpose # NULL
    /\ OtherContactsResolved(self)
    /\ YesAndFilledOrNo(self.has_cisa_representative,
                        {self.cisa_representative_first_name,
                         self.cisa_representative_last_name})
    /\ YesAndFilledOrNo(self.has_anything_else_text, {self.anything_else})
    /\ self.is_policy_acknowledged = True

C21_CompleteImpliesGenericPredicates ==
    (last.op = "_form_complete" /\ last.result = True) => AllGenericPredicates(inst)

(***************************************************************************)
(* C22: the predicate that depends on the type is true exactly when:       *)
(* federal, federal_type and federal_agency both set; interstate,          *)
(* about_your_organization set; special district, about_your_organization  *)
(* and is_election_board both set; state or territory, county and city,    *)
(* is_election_board set; tribal, tribe_name and is_election_board both    *)
(* set; school district, always; no type, never.  _form_complete returns   *)
(* the conjunction of this predicate and the predicates that do not        *)
(* depend on the type.                                                     *)
(***************************************************************************)
TypeSpecificPredicate(self) ==
    CASE self.generic_org_type = "federal" ->
            self.federal_type # NULL /\ self.federal_agency # NULL
      [] self.generic_org_type = "interstate" -> self.about_your_organization # NULL
      [] self.generic_org_type = "special_district" ->
            self.about_your_organization # NULL /\ self.is_election_board # NULL
      [] self.generic_org_type \in {"state_or_territory", "county", "city"} ->
            self.is_election_board # NULL
      [] self.generic_org_type = "tribal" ->
            self.tribe_name # NULL /\ self.is_election_board # NULL
      [] self.generic_org_type = "school_district" -> TRUE
      [] OTHER -> FALSE

C22_CompleteIsConjunction ==
    last.op = "_form_complete"
        => last.result = bool(TypeSpecificPredicate(inst) /\ AllGenericPredicates(inst))

(***************************************************************************)
(* C23: after a save that leaves the request in ACTION_NEEDED or REJECTED, *)
(* a custom status email is sent if and only if the email text of that     *)
(* status is present, the reason of that status is not None and not        *)
(* excluded (ACTION_NEEDED excludes OTHER, REJECTED nothing), and the      *)
(* reason differs from the value cached at load or at the previous save,   *)
(* a cached None counting as differing; a save in any other status sends   *)
(* no custom status email.  Stated for a creator who has an email address. *)
(***************************************************************************)
CustomEmailExpected(m) ==
    \/ /\ m.status = ACTION_NEEDED
       /\ m.action_needed_reason_email # NULL
       /\ m.action_needed_reason \notin {NULL, REASON_OTHER}
       /\ (m.cached_action_needed_reason = NULL
              \/ m.cached_action_needed_reason # m.action_needed_reason)
    \/ /\ m.status = REJECTED
       /\ m.rejection_reason_email # NULL
       /\ m.rejection_reason # NULL
       /\ (m.cached_rejection_reason = NULL
              \/ m.cached_rejection_reason # m.rejection_reason)

CustomEmailsSent == SelectSeq(outbox', LAMBDA n : n.outcome = "sent")

C23_Step(r) ==
    (last'.req = r /\ last'.op = "save" /\ UserEmail(mem[r].creator) # NULL)
        => IF CustomEmailExpected(mem[r])
           THEN /\ Len(CustomEmailsSent) = 1
                /\ CustomEmailsSent[1].new_status = mem[r].status
           ELSE CustomEmailsSent = <<>>

C23_CustomEmailIffReasonChanged == [][\A r \in DOMAIN mem : C23_Step(r)]_vars

(***************************************************************************)
(* C24: rejection_reason is set only while the status is REJECTED and      *)
(* action_needed_reason only while it is ACTION_NEEDED, so at most one of  *)
(* the two is set: a transition that succeeds on a request whose reasons   *)
(* are scoped in this way leaves them scoped.  In particular leaving       *)
(* REJECTED clears rejection_reason and leaving ACTION_NEEDED clears       *)
(* action_needed_reason.                                                   *)
(***************************************************************************)
ReasonsScoped(m) ==
    /\ m.rejection_reason # NULL => m.status = REJECTED
    /\ m.action_needed_reason # NULL => m.status = ACTION_NEEDED

C24_Step(r) ==
    (EventStep(r) /\ last'.result = "ok" /\ ReasonsScoped(mem[r]))
        => ReasonsScoped(mem'[r])

C24_ReasonsScopedToStatus == [][\A r \in DOMAIN mem : C24_Step(r)]_vars

(***************************************************************************)
(* C25: when in_review, action_needed, reject or reject_with_prejudice is  *)
(* called on an APPROVED request whose guards hold, it returns normally    *)
(* and the status is its target, whether or not a step of the cleanup of   *)
(* the domain (the read of the registry state, the deletion in the         *)
(* registry, the local deletion) fails.                                    *)
(***************************************************************************)
LeavingApproved == {"in_review", "action_needed", "reject", "reject_with_prejudice"}

C25_Step(r) ==
    ( /\ last'.req = r
      /\ last'.op \in LeavingApproved
      /\ mem[r].status = APPROVED
      /\ domain_is_not_active(mem[r])
      /\ investigator_exists_and_is_staff(mem[r]) )
        => /\ last'.result = "ok"
           /\ mem'[r].status = TableTarget(last'.op)

C25_CleanupFailureSwallowed == [][\A r \in DOMAIN mem : C25_Step(r)]_vars

\* a transition out of APPROVED done although the cleanup failed: the domain is still there
C25_Witness ==
    \E r \in DOMAIN mem :
        /\ last.req = r /\ last.op \in LeavingApproved /\ last.result = "ok"
        /\ mem[r].status = TableTarget(last.op)
        /\ mem[r].approved_domain # NoDomain
        /\ DomainById(mem[r].approved_domain) # {}

(***************************************************************************)
(* C26: when in_review, action_needed, reject or reject_with_prejudice     *)
(* leaves APPROVED, deletion in the registry is requested only if the      *)
(* registry state of the approved domain is not unknown, and it comes      *)
(* before the deletion of the local Domain row: a Domain row marked        *)
(* deleted in the registry was not unknown, and a row that is unknown is   *)
(* either deleted locally or left as it is.  When the cleanup succeeds the *)
(* Domain row no longer exists and approved_domain is None.                *)
(***************************************************************************)
C26_Step(r) ==
    ( /\ last'.req = r
      /\ last'.op \in LeavingApproved
      /\ last'.result = "ok"
      /\ mem[r].status = APPROVED )
        => \A dom \in DomainById(mem[r].approved_domain) :
              LET after == {x \in domains' : x.id = dom.id}
              IN  /\ \A x \in after :
                        \/ x = dom
                        \/ x = [dom EXCEPT !.state = DELETED] /\ dom.state # UNKNOWN
                  /\ dom.state = UNKNOWN => after \subseteq {dom}
                  /\ after = {} <=> mem'[r].approved_domain = NoDomain
                  /\ after = {} =>
                        /\ \A x \in infos' : x.domain # dom.id
                        /\ \A q \in DOMAIN db' : db'[q].approved_domain # dom.id

C26_RegistryDeletionBeforeLocal == [][\A r \in DOMAIN mem : C26_Step(r)]_vars

\* a cleanup that succeeded: out of APPROVED, the Domain row gone, approved_domain None
C26_Witness ==
    \E r \in DOMAIN mem :
        /\ last.req = r /\ last.op \in LeavingApproved /\ last.result = "ok"
        /\ mem[r].status = TableTarget(last.op)
        /\ mem[r].approved_domain = NoDomain
        /\ db[r].approved_domain = NoDomain
        /\ domains = {}
        /\ nextId > 1

====
